---- MODULE Spec2Model ----
(***************************************************************************)
(* Model of nmc's traversal scheduler, findNodeModules (src/scanner.ts).   *)
(*                                                                         *)
(* JavaScript runs one callback at a time, so one step of the model is one *)
(* completed I/O request (readdir or stat) together with everything the    *)
(* code then runs until every continuation waits on I/O again.             *)
(*                                                                         *)
(* A path is the sequence of its components, the root being <<rootName>>.  *)
(***************************************************************************)
EXTENDS Integers, Sequences, FiniteSets, TLC

\* ---------------------------------------------------------------- bounds
MaxConcurrency == 2
MaxTime == 1
MaxFiles == 1

\* ------------------------------------------------------ the file system
TARGET == "node_modules"

RootNames == {"root", TARGET}

\* Directory entries that may exist below the root (relative paths).
Universe ==
  { <<"a">>, <<"a", TARGET>>,
    <<"b">>, <<"b", TARGET>>, <<"b", TARGET, "c">>, <<"b", TARGET, "c", TARGET>>,
    <<".hidden">>, <<".hidden", TARGET>>,
    <<TARGET>> }

Times == 1..MaxTime

Last(p) == p[Len(p)]
Parent(p) == SubSeq(p, 1, Len(p) - 1)
IsPrefix(p, q) == Len(p) <= Len(q) /\ SubSeq(q, 1, Len(p)) = p
IsProperPrefix(p, q) == Len(p) < Len(q) /\ SubSeq(q, 1, Len(p)) = p

PrefixClosed(S) == \A p \in S : Len(p) > 1 => Parent(p) \in S
Leaves(S) == {p \in S : ~ \E q \in S : IsProperPrefix(p, q)}

\* Every tree the scan is started on: a prefix-closed part of Universe.
Trees == {S \in SUBSET Universe : PrefixClosed(S)}

VARIABLES
  rootName,       \* last component of rootPath
  tree,           \* entries existing below the root (relative paths)
  files,          \* the entries of tree that are not directories
  concurrency,    \* the concurrency argument
  hasCallback,    \* whether onFound was supplied
  started,        \* spawnWorkers() of line 118 has run
  results,        \* results: NodeModulesInfo[]
  queue,          \* queue: string[]
  activeWorkers,  \* activeWorkers
  allDone,        \* the allDone promise is resolved
  workers,        \* the worker() invocations, in the order they were made
  found,          \* the records passed to onFound, in call order
  readFailed,     \* paths whose readdir rejected
  statFailed,     \* paths whose stat rejected
  listed          \* the paths taken from the queue, in the order taken

\* getDirectorySizes (one call)
VARIABLES
  dirPaths,       \* the dirPaths argument
  disk,           \* what du measures: kilobytes of each path, or Null
  szPc,           \* "idle", "awaiting" (the shell command runs), "done"
  szResponse,     \* how the shell command ended: [threw, output]
  szFaithful,     \* the command behaved as xargs/du over disk do
  szReturn        \* what the call gave: [raised, results]

scanVars == << rootName, tree, files, concurrency, hasCallback, started,
               results, queue, activeWorkers, allDone, workers, found,
               readFailed, statFailed, listed >>

sizeVars == << dirPaths, disk, szPc, szResponse, szFaithful, szReturn >>

\* sortByAge, sortBySize and filterByAge applied to one array
VARIABLES
  src,            \* the array's content before the first call
  arg,            \* the array's content now (it is the calls' argument)
  ret,            \* the array the last call returned
  lastCall,       \* the last call: [fn, descending, days, now]
  calls           \* number of calls made

pipeVars == << src, arg, ret, lastCall, calls >>

\* main() of the command line tool (one run)
VARIABLES
  args,           \* process.argv.slice(2)
  opts,           \* what parseArgs returned
  mPc,            \* where main is: "start", "scanning", "sizing", "confirm",
                  \* "cleaning", "exited"
  mResults,       \* results (the records, sized in place by populateSizes)
  mSorted,        \* sorted
  mFiltered,      \* filtered
  mNow,           \* the reading of Date.now() in filterByAge, Null if none
  printed,        \* the paths printResults listed, in order
  answer,         \* what confirmClean read: Null, [eof], or [line]
  handed,         \* the paths cleanDirectories gave to xargs rm -rf
  rmOutcome,      \* per handed path: "removed", "gone" or "failed"
  cleaned,        \* what cleanDirectories did: [raised, failed, reported, attempted, count, freed]
  exitCode        \* Null while running, then the exit status

mainVars == << args, opts, mPc, mResults, mSorted, mFiltered, mNow, printed,
               answer, handed, rmOutcome, cleaned, exitCode >>

vars == << scanVars, sizeVars, pipeVars, mainVars >>

notScan == << sizeVars, pipeVars, mainVars >>
notSizes == << scanVars, pipeVars, mainVars >>
notPipe == << scanVars, sizeVars, mainVars >>
notMain == << scanVars, sizeVars, pipeVars >>

env == << rootName, tree, files, concurrency, hasCallback >>

rootPath == << rootName >>

\* path.join(currentPath, name)
join(currentPath, name) == Append(currentPath, name)

\* entry.name.startsWith(".") over the names of Universe
StartsWithDot(name) == name \in {".hidden"}

\* The Dirent objects readdir(p, {withFileTypes: true}) yields for directory p.
Dirents(p) ==
  { [name |-> Last(e), isDirectory |-> e \notin files] :
      e \in {e \in tree : Len(e) = Len(p) /\ rootPath \o Parent(e) = p} }

\* readdir promises no order of the entries.
Orderings(S) ==
  { f \in [1..Cardinality(S) -> S] :
      \A i, j \in 1..Cardinality(S) : f[i] = f[j] => i = j }

\* The directories that exist: the root and every non-file entry below it.
Dirs == {rootPath} \cup {rootPath \o e : e \in tree \ files}

\* The shared state the worker functions read and write.
Mach == [queue |-> queue, activeWorkers |-> activeWorkers,
         workers |-> workers, allDone |-> allDone, listed |-> listed]

Awaiting(pc, currentPath, entries, subdirs) ==
  [pc |-> pc, currentPath |-> currentPath, entries |-> entries,
   subdirs |-> subdirs]

Exited == Awaiting("exited", << >>, << >>, << >>)

RECURSIVE spawnWorkers(_), worker(_, _), processEntries(_, _, _, _, _)

\* spawnWorkers(): start workers while there is room and pending work.
\* worker() runs synchronously up to its first await.
spawnWorkers(s) ==
  IF s.activeWorkers < concurrency /\ Len(s.queue) > 0
  THEN spawnWorkers(
         worker([s EXCEPT !.activeWorkers = s.activeWorkers + 1,
                          !.workers = Append(s.workers, Exited)],
                Len(s.workers) + 1))
  ELSE s

\* The then-callback attached to worker() in spawnWorkers.
thenCallback(s) ==
  IF Len(s.queue) > 0 THEN spawnWorkers(s) ELSE s

\* worker() signalling completion as soon as it has emptied the queue.
workerSignalsEarly(s, w) ==
  IF s.queue = << >>
  THEN LET n == s.activeWorkers - 1
       IN thenCallback(
            [s EXCEPT !.activeWorkers = n,
                      !.workers[w] = Exited,
                      !.allDone = s.allDone \/ (n = 0 /\ Len(s.queue) = 0)])
  ELSE [s EXCEPT !.queue = Tail(s.queue),
                 !.listed = Append(s.listed, Head(s.queue)),
                 !.allDone = s.allDone \/ Tail(s.queue) = << >>,
                 !.workers[w] = Awaiting("readdir", Head(s.queue), << >>, << >>)]

\* worker() reading queue[0] and leaving it in the queue.
workerPeek(s, w) ==
  IF s.queue = << >>
  THEN LET n == s.activeWorkers - 1
       IN thenCallback(
            [s EXCEPT !.activeWorkers = n,
                      !.workers[w] = Exited,
                      !.allDone = s.allDone \/ (n = 0 /\ Len(s.queue) = 0)])
  ELSE [s EXCEPT !.listed = Append(s.listed, Head(s.queue)),
                 !.workers[w] = Awaiting("readdir", Head(s.queue), << >>, << >>)]

\* One turn of worker()'s loop for worker w: take the next path and start
\* listing it, or leave the loop, decrement, signal completion and run the
\* then-callback.  (`!path` is also true of the empty string; every path of
\* the model has at least one component.)
worker(s, w) ==
  IF s.queue = << >>
  THEN LET n == s.activeWorkers - 1
       IN thenCallback(
            [s EXCEPT !.activeWorkers = n,
                      !.workers[w] = Exited,
                      !.allDone = s.allDone \/ (n = 0 /\ Len(s.queue) = 0)])
  ELSE [s EXCEPT !.queue = Tail(s.queue),
                 !.listed = Append(s.listed, Head(s.queue)),
                 !.workers[w] = Awaiting("readdir", Head(s.queue), << >>, << >>)]

\* processEntries with the pruning lost: a matched directory is also pushed
\* to subdirs and so traversed.
processEntriesDescend(s, w, currentPath, entries, subdirs) ==
  IF entries = << >>
  THEN worker([s EXCEPT !.queue = s.queue \o subdirs], w)
  ELSE LET entry == Head(entries)
       IN IF ~ entry.isDirectory
          THEN processEntries(s, w, currentPath, Tail(entries), subdirs)
          ELSE IF StartsWithDot(entry.name)
          THEN processEntries(s, w, currentPath, Tail(entries), subdirs)
          ELSE IF entry.name = TARGET
          THEN [s EXCEPT !.workers[w] =
                  Awaiting("stat", currentPath, entries,
                           Append(subdirs, join(currentPath, entry.name)))]
          ELSE processEntries(s, w, currentPath, Tail(entries),
                              Append(subdirs, join(currentPath, entry.name)))

\* processEntries without the isDirectory test.
processEntriesAnyKind(s, w, currentPath, entries, subdirs) ==
  IF entries = << >>
  THEN worker([s EXCEPT !.queue = s.queue \o subdirs], w)
  ELSE LET entry == Head(entries)
       IN IF StartsWithDot(entry.name)
          THEN processEntries(s, w, currentPath, Tail(entries), subdirs)
          ELSE IF entry.name = TARGET
          THEN [s EXCEPT !.workers[w] =
                  Awaiting("stat", currentPath, entries, subdirs)]
          ELSE processEntries(s, w, currentPath, Tail(entries),
                              Append(subdirs, join(currentPath, entry.name)))

\* processEntries without the hidden-name test.
processEntriesHidden(s, w, currentPath, entries, subdirs) ==
  IF entries = << >>
  THEN worker([s EXCEPT !.queue = s.queue \o subdirs], w)
  ELSE LET entry == Head(entries)
       IN IF ~ entry.isDirectory
          THEN processEntries(s, w, currentPath, Tail(entries), subdirs)
          ELSE IF entry.name = TARGET
          THEN [s EXCEPT !.workers[w] =
                  Awaiting("stat", currentPath, entries, subdirs)]
          ELSE processEntries(s, w, currentPath, Tail(entries),
                              Append(subdirs, join(currentPath, entry.name)))

\* processEntries assigning subdirs to the queue instead of appending them.
processEntriesOverwrite(s, w, currentPath, entries, subdirs) ==
  IF entries = << >>
  THEN worker([s EXCEPT !.queue = subdirs], w)
  ELSE LET entry == Head(entries)
       IN IF ~ entry.isDirectory
          THEN processEntries(s, w, currentPath, Tail(entries), subdirs)
          ELSE IF StartsWithDot(entry.name)
          THEN processEntries(s, w, currentPath, Tail(entries), subdirs)
          ELSE IF entry.name = TARGET
          THEN [s EXCEPT !.workers[w] =
                  Awaiting("stat", currentPath, entries, subdirs)]
          ELSE processEntries(s, w, currentPath, Tail(entries),
                              Append(subdirs, join(currentPath, entry.name)))

\* The for loop of processPath from the entry at the head of entries on:
\* stops at the await of stat, or ends with queue.push(...subdirs) and
\* returns to worker()'s loop.
processEntries(s, w, currentPath, entries, subdirs) ==
  IF entries = << >>
  THEN worker([s EXCEPT !.queue = s.queue \o subdirs], w)
  ELSE LET entry == Head(entries)
       IN IF ~ entry.isDirectory
          THEN processEntries(s, w, currentPath, Tail(entries), subdirs)
          ELSE IF StartsWithDot(entry.name)
          THEN processEntries(s, w, currentPath, Tail(entries), subdirs)
          ELSE IF entry.name = TARGET
          THEN [s EXCEPT !.workers[w] =
                  Awaiting("stat", currentPath, entries, subdirs)]
          ELSE processEntries(s, w, currentPath, Tail(entries),
                              Append(subdirs, join(currentPath, entry.name)))

Install(s) ==
  /\ queue' = s.queue
  /\ activeWorkers' = s.activeWorkers
  /\ workers' = s.workers
  /\ allDone' = s.allDone
  /\ listed' = s.listed

\* size: null
Null == << >>

\* No getDirectorySizes call is part of the run.
SizesIdle ==
  /\ dirPaths = << >>
  /\ disk = << >>
  /\ szPc = "off"
  /\ szResponse = Null
  /\ szFaithful = FALSE
  /\ szReturn = Null

\* No pipeline function is called in the run.
PipeIdle ==
  /\ src = << >>
  /\ arg = << >>
  /\ ret = << >>
  /\ lastCall = Null
  /\ calls = 0

\* main is not part of the run.
MainIdle ==
  /\ args = << >>
  /\ opts = Null
  /\ mPc = "off"
  /\ mResults = << >>
  /\ mSorted = << >>
  /\ mFiltered = << >>
  /\ mNow = Null
  /\ printed = << >>
  /\ answer = Null
  /\ handed = << >>
  /\ rmOutcome = Null
  /\ cleaned = Null
  /\ exitCode = Null

Init ==
  /\ SizesIdle
  /\ PipeIdle
  /\ MainIdle
  /\ rootName \in RootNames
  /\ tree \in Trees
  /\ files \in {F \in SUBSET Leaves(tree) : Cardinality(F) <= MaxFiles}
  /\ concurrency \in 1..MaxConcurrency
  /\ hasCallback \in BOOLEAN
  /\ started = FALSE
  /\ results = << >>
  /\ queue = << rootPath >>
  /\ activeWorkers = 0
  /\ allDone = FALSE
  /\ workers = << >>
  /\ found = << >>
  /\ readFailed = {}
  /\ statFailed = {}
  /\ listed = << >>

\* findNodeModules up to `await allDone`: the first spawnWorkers() call.
Start ==
  /\ ~ started
  /\ started' = TRUE
  /\ Install(spawnWorkers(Mach))
  /\ UNCHANGED << env, results, found, readFailed, statFailed >>

\* ReaddirFail without the try/catch around readdir: the rejection escapes.
ReaddirFailThrows(w) ==
  /\ workers[w].pc = "readdir"
  /\ readFailed' = readFailed \cup {workers[w].currentPath}
  /\ workers' = [workers EXCEPT ![w] = Awaiting("rejected", << >>, << >>, << >>)]
  /\ UNCHANGED << env, started, results, found, statFailed, queue,
                  activeWorkers, allDone, listed >>

\* readdir(currentPath) rejects: processPath returns, the worker loops.
ReaddirFail(w) ==
  /\ workers[w].pc = "readdir"
  /\ readFailed' = readFailed \cup {workers[w].currentPath}
  /\ Install(worker(Mach, w))
  /\ UNCHANGED << env, started, results, found, statFailed >>

\* readdir(currentPath) resolves with the entries in some order.
ReaddirOk(w) ==
  /\ workers[w].pc = "readdir"
  /\ workers[w].currentPath \in Dirs
  /\ \E entries \in Orderings(Dirents(workers[w].currentPath)) :
       Install(processEntries(Mach, w, workers[w].currentPath, entries, << >>))
  /\ UNCHANGED << env, started, results, found, readFailed, statFailed >>

\* StatOk with the onFound call left out.
StatOkSilent(w) ==
  /\ workers[w].pc = "stat"
  /\ \E mtime \in Times :
       LET me == workers[w]
           info == [path |-> join(me.currentPath, Head(me.entries).name),
                    size |-> Null, modifiedAt |-> mtime]
       IN /\ results' = Append(results, info)
          /\ found' = found
  /\ Install(processEntries(Mach, w, workers[w].currentPath,
                            Tail(workers[w].entries), workers[w].subdirs))
  /\ UNCHANGED << env, started, readFailed, statFailed >>

\* stat(fullPath) resolves: the match is recorded and reported, the for loop
\* goes on with the next entry.
StatOk(w) ==
  /\ workers[w].pc = "stat"
  /\ \E mtime \in Times :
       LET me == workers[w]
           info == [path |-> join(me.currentPath, Head(me.entries).name),
                    size |-> Null, modifiedAt |-> mtime]
       IN /\ results' = Append(results, info)
          /\ found' = IF hasCallback THEN Append(found, info) ELSE found
  /\ Install(processEntries(Mach, w, workers[w].currentPath,
                            Tail(workers[w].entries), workers[w].subdirs))
  /\ UNCHANGED << env, started, readFailed, statFailed >>

\* stat(fullPath) rejects: nothing catches it, so processPath and worker()
\* reject; the worker never reaches activeWorkers-- and its then-callback is
\* not called.
StatFail(w) ==
  /\ workers[w].pc = "stat"
  /\ statFailed' = statFailed \cup
                     {join(workers[w].currentPath, Head(workers[w].entries).name)}
  /\ workers' = [workers EXCEPT ![w] = Awaiting("rejected", << >>, << >>, << >>)]
  /\ UNCHANGED << env, started, results, found, readFailed, queue,
                  activeWorkers, allDone, listed >>

Next ==
  \/ Start /\ UNCHANGED notScan
  \/ \E w \in DOMAIN workers : ReaddirFail(w) /\ UNCHANGED notScan
  \/ \E w \in DOMAIN workers : ReaddirOk(w) /\ UNCHANGED notScan
  \/ \E w \in DOMAIN workers : StatOk(w) /\ UNCHANGED notScan
  \/ \E w \in DOMAIN workers : StatFail(w) /\ UNCHANGED notScan

Spec == Init /\ [][Next]_vars

\* ------------------------------------------------------------ properties

PathsOf(records) == {records[i].path : i \in DOMAIN records}

\* Paths a worker holds or will hold: queued, or being listed.
Pending ==
  {queue[i] : i \in DOMAIN queue}
    \cup {workers[w].currentPath :
            w \in {w \in DOMAIN workers : workers[w].pc \in {"readdir", "stat"}}}

\* No readdir or stat request is outstanding.
NoIOPending == \A w \in DOMAIN workers : workers[w].pc \notin {"readdir", "stat"}

\* The components of path p below the root.
Below(p) == {p[i] : i \in 2..Len(p)}

\* The directories strictly between the root and p.
Chain(p) == {SubSeq(p, 1, n) : n \in 2..(Len(p) - 1)}

\* The directories named node_modules that are reached from the root through
\* directories that are neither hidden nor named node_modules.
Targets ==
  { p \in Dirs \ {rootPath} :
      /\ Last(p) = TARGET
      /\ \A d \in Chain(p) : Last(d) # TARGET /\ Last(d) \notin {".hidden"} }

ExampleTree ==
  { <<"a">>, <<"a", TARGET>>,
    <<"b">>, <<"b", TARGET>>, <<"b", TARGET, "c">>, <<"b", TARGET, "c", TARGET>>,
    <<".hidden">>, <<".hidden", TARGET>> }

\* C2: when no listing and no stat failed, the returned paths are exactly
\* the node_modules directories reached from the root through directories
\* that are neither hidden nor named node_modules; for the example tree these
\* are root/a/node_modules and root/b/node_modules.
C2_ExactTargets ==
  (allDone /\ readFailed = {} /\ statFailed = {}) =>
     /\ PathsOf(results) = Targets
     /\ (tree = ExampleTree /\ files = {} /\ rootName = "root") =>
          PathsOf(results) = { <<"root", "a", TARGET>>, <<"root", "b", TARGET>> }

C2_Witness ==
  /\ allDone /\ readFailed = {} /\ statFailed = {}
  /\ tree = ExampleTree /\ files = {} /\ rootName = "root"
  /\ Len(results) = 2

\* C3: a scan always runs to completion: once started, whenever no I/O request
\* is outstanding (so nothing further can happen) the completion promise is
\* resolved with an empty queue and no active worker.
C3_Terminates ==
  (started /\ NoIOPending) => (allDone /\ queue = << >> /\ activeWorkers = 0)

\* C4: a failed listing rejects no worker, nothing below a directory whose
\* listing failed is reported, and the scan returns every match that is not
\* below such a directory; it returns nothing when the root's listing failed.
C4_ListingFailureSwallowed ==
  /\ statFailed = {} => \A w \in DOMAIN workers : workers[w].pc # "rejected"
  /\ \A d \in readFailed : \A p \in PathsOf(results) : ~ IsPrefix(d, p)
  /\ allDone =>
       \A p \in Targets :
         (\A d \in readFailed : ~ IsPrefix(d, p)) => p \in PathsOf(results)
  /\ (allDone /\ rootPath \in readFailed) => results = << >>

C4_Witness ==
  /\ allDone
  /\ rootPath \o << "a" >> \in readFailed
  /\ << "a", TARGET >> \in tree \ files
  /\ rootPath \o << "b", TARGET >> \in PathsOf(results)

\* C5: a node_modules directory whose stat fails is skipped silently: no
\* worker rejects, and the scan still completes, having traversed the
\* siblings and returning every other match.
C5_StatFailureSkipped ==
  statFailed # {} =>
    /\ \A w \in DOMAIN workers : workers[w].pc # "rejected"
    /\ NoIOPending =>
         /\ allDone
         /\ \A p \in Targets \ statFailed :
              (\A d \in readFailed : ~ IsPrefix(d, p)) => p \in PathsOf(results)

\* C6: a root that is itself a (listable) directory named node_modules is
\* returned as a match.
C6_RootMatched ==
  (allDone /\ rootName = TARGET /\ rootPath \notin readFailed) =>
     rootPath \in PathsOf(results)

\* C7: no match lies in or below a hidden directory under the root, and no
\* path in or below a hidden directory under the root is queued or listed.
C7_HiddenExcluded ==
  \A p \in PathsOf(results) \cup Pending : ".hidden" \notin Below(p)

C7_Witness ==
  /\ allDone
  /\ << ".hidden", TARGET >> \in tree \ files
  /\ readFailed = {} /\ statFailed = {}
  /\ results # << >>

RECURSIVE Sequential(_)
\* The matches of a one-at-a-time depth-first walk from directory p over the
\* same file system (the same listings failing).
Sequential(p) ==
  IF p \in readFailed
  THEN {}
  ELSE UNION { IF ~ e.isDirectory \/ e.name \in {".hidden"}
                 THEN {}
                 ELSE IF e.name = TARGET
                   THEN {join(p, e.name)}
                   ELSE Sequential(join(p, e.name)) : e \in Dirents(p) }

\* C8: whatever the concurrency and the order in which I/O completes, the
\* set of returned paths is the one a sequential walk of the same file system
\* yields.
C8_SetDeterministic ==
  allDone => PathsOf(results) = Sequential(rootPath)

C8_Witness ==
  /\ allDone
  /\ concurrency >= 2
  /\ Len(results) >= 3

\* C9: with a callback, the records passed to it are at every moment exactly
\* the records collected so far, in the same order (one call per match, made
\* when the match is recorded); without one nothing is called; and once the
\* scan has completed neither sequence changes.
C9_CallbackPerMatch ==
  /\ [](IF hasCallback THEN found = results ELSE found = << >>)
  /\ [][allDone => (found' = found /\ results' = results)]_vars

C9_Witness ==
  /\ allDone
  /\ hasCallback
  /\ Len(found) >= 2

\* C10: once the scan has started, pending paths are never left queued while
\* fewer than `concurrency` workers are active.
C10_PoolFilled ==
  started => ~ (Len(queue) > 0 /\ activeWorkers < concurrency)

\* ======================================================================
\* getDirectorySizes (src/scanner.ts:12-46).  A string is the sequence of
\* its characters; a JavaScript number n is << n >>, NaN is NaN and null is
\* Null.
\* ======================================================================

MaxPaths == 2
MaxLines == 2
MaxKb == 1

NaN == << "NaN", "NaN" >>

TAB == "\t"
NL == "\n"

WhiteSpace == {" ", TAB, NL}

Digits == <<"0", "1", "2", "3", "4", "5", "6", "7", "8", "9">>

IsDigit(c) == \E d \in DOMAIN Digits : Digits[d] = c
DigitValue(c) == (CHOOSE d \in DOMAIN Digits : Digits[d] = c) - 1

RECURSIVE TrimStart(_), TrimEnd(_), Split(_, _), DigitPrefix(_), Decimal(_, _)

TrimStart(str) ==
  IF str # << >> /\ Head(str) \in WhiteSpace THEN TrimStart(Tail(str)) ELSE str

TrimEnd(str) ==
  IF str # << >> /\ str[Len(str)] \in WhiteSpace
  THEN TrimEnd(SubSeq(str, 1, Len(str) - 1))
  ELSE str

\* String.prototype.trim
Trim(str) == TrimEnd(TrimStart(str))

\* String.prototype.indexOf for a one-character needle (0-based, -1 if absent)
IndexOf(str, c) ==
  IF \E i \in DOMAIN str : str[i] = c
  THEN (CHOOSE i \in DOMAIN str : str[i] = c /\ \A j \in 1..(i - 1) : str[j] # c) - 1
  ELSE -1

\* String.prototype.slice(from, to) with 0-based non-negative indices
Slice(str, from, to) == SubSeq(str, from + 1, to)

\* String.prototype.split for a one-character separator
Split(str, sep) ==
  LET at == IndexOf(str, sep)
  IN IF at = -1
     THEN << str >>
     ELSE << Slice(str, 0, at) >> \o Split(Slice(str, at + 1, Len(str)), sep)

\* The longest prefix of str made of decimal digits.
DigitPrefix(str) ==
  IF str # << >> /\ IsDigit(Head(str))
  THEN << Head(str) >> \o DigitPrefix(Tail(str))
  ELSE << >>

\* The value of a digit string, acc being the value of the digits read.
Decimal(digits, acc) ==
  IF digits = << >> THEN acc
  ELSE Decimal(Tail(digits), 10 * acc + DigitValue(Head(digits)))

\* parseInt(str, 10): leading white space, an optional sign, then digits;
\* NaN when no digit follows.
ParseInt(str) ==
  LET t == TrimStart(str)
      signed == t # << >> /\ Head(t) \in {"-", "+"}
      body == IF signed THEN Tail(t) ELSE t
      digits == DigitPrefix(body)
  IN IF digits = << >> THEN NaN
     ELSE IF signed /\ Head(t) = "-" THEN << 0 - Decimal(digits, 0) >>
     ELSE << Decimal(digits, 0) >>

\* kb * 1024
Times1024(kb) == IF kb = NaN THEN NaN ELSE << kb[1] * 1024 >>

\* new Map()
EmptyMap == [k \in {} |-> Null]

\* Map.prototype.set
MapSet(map, key, value) ==
  [k \in DOMAIN map \cup {key} |-> IF k = key THEN value ELSE map[k]]

RECURSIVE ParseLines(_, _), MarkUnresolved(_, _), MarkUnresolvedZero(_, _)

\* The loop over the output lines (lines 26-33).
ParseLines(lines, map) ==
  IF lines = << >> THEN map
  ELSE LET line == Head(lines)
           tabIndex == IndexOf(line, TAB)
       IN IF line = << >> THEN ParseLines(Tail(lines), map)
          ELSE IF tabIndex = -1 THEN ParseLines(Tail(lines), map)
          ELSE ParseLines(Tail(lines),
                 MapSet(map, Slice(line, tabIndex + 1, Len(line)),
                        Times1024(ParseInt(Slice(line, 0, tabIndex)))))

\* MarkUnresolved storing 0 for a path that was not resolved.
MarkUnresolvedZero(paths, map) ==
  IF paths = << >> THEN map
  ELSE MarkUnresolved(Tail(paths),
         IF Head(paths) \notin DOMAIN map
         THEN MapSet(map, Head(paths), << 0 >>)
         ELSE map)

\* The loop over dirPaths (lines 39-43).
MarkUnresolved(paths, map) ==
  IF paths = << >> THEN map
  ELSE MarkUnresolved(Tail(paths),
         IF Head(paths) \notin DOMAIN map
         THEN MapSet(map, Head(paths), Null)
         ELSE map)

\* AfterCommand without the try/catch around the shell command.
AfterCommandUncaught(paths, response) ==
  IF response.threw
  THEN [raised |-> TRUE, results |-> EmptyMap]
  ELSE [raised |-> FALSE,
        results |-> MarkUnresolved(paths,
                      ParseLines(Split(Trim(response.output), NL), EmptyMap))]

\* AfterCommand keeping what it can read of the output when the command
\* reports a failure.
AfterCommandLenient(paths, response) ==
  [raised |-> FALSE,
   results |-> MarkUnresolved(paths,
                 ParseLines(Split(Trim(response.output), NL), EmptyMap))]

\* getDirectorySizes from the end of the shell command on (lines 24-45):
\* a command that threw leaves the map empty before the marking loop.
AfterCommand(paths, response) ==
  [raised |-> FALSE,
   results |-> MarkUnresolved(paths,
                 IF response.threw
                 THEN EmptyMap
                 ELSE ParseLines(Split(Trim(response.output), NL), EmptyMap))]

\* ---- the inputs and the shell command

SizePaths == { <<"p">>, <<"q">> }

RECURSIVE SeqsUpTo(_, _)
\* The sequences over S of length at most n.
SeqsUpTo(S, n) ==
  IF n = 0 THEN { << >> }
  ELSE LET shorter == SeqsUpTo(S, n - 1)
       IN shorter \cup {Append(q, x) : q \in shorter, x \in S}

Unmeasurable == Null

RECURSIVE FormatNat(_)
\* The decimal digits of a natural number, as du prints it.
FormatNat(n) ==
  IF n < 10 THEN << Digits[n + 1] >>
  ELSE FormatNat(n \div 10) \o << Digits[(n % 10) + 1] >>

\* The line `du -sk path` prints for a path of kb kilobytes.
DuLine(kb, path) == FormatNat(kb) \o << TAB >> \o path

RECURSIVE JoinLines(_)
\* Lines as they arrive on standard output, each ended by a newline.
JoinLines(lines) ==
  IF lines = << >> THEN << >>
  ELSE Head(lines) \o << NL >> \o JoinLines(Tail(lines))

\* Lines a command may print: well-formed, malformed, for unknown paths.
CandidateLines ==
  { DuLine(1, <<"p">>), DuLine(2, <<"q">>), DuLine(0, <<"p">>),
    <<"x", TAB, "p">>, <<TAB, "q">>, <<"p">>, << >>,
    <<"1", TAB, "p", TAB, "q">>, <<" ", "1", TAB, "q">>,
    <<"1", "x", TAB, "z">> }

\* What xargs -I {} du -sk {} prints for the paths over disk, the du
\* processes finishing in the order given by perm.
FaithfulOutputOn(d, paths, perm) ==
  LET measured == SelectSeq(perm, LAMBDA i : d[paths[i]] # Unmeasurable)
  IN JoinLines([k \in DOMAIN measured |->
                  DuLine(d[paths[measured[k]]][1], paths[measured[k]])])

FaithfulOutput(paths, perm) == FaithfulOutputOn(disk, paths, perm)

ScanIdle ==
  /\ rootName = "root"
  /\ tree = {}
  /\ files = {}
  /\ concurrency = 1
  /\ hasCallback = FALSE
  /\ started = FALSE
  /\ results = << >>
  /\ queue = << >>
  /\ activeWorkers = 0
  /\ allDone = FALSE
  /\ workers = << >>
  /\ found = << >>
  /\ readFailed = {}
  /\ statFailed = {}
  /\ listed = << >>

SizesInit ==
  /\ ScanIdle
  /\ PipeIdle
  /\ MainIdle
  /\ dirPaths \in SeqsUpTo(SizePaths, MaxPaths)
  /\ disk \in [SizePaths -> {Unmeasurable} \cup {<< kb >> : kb \in 0..MaxKb}]
  /\ szPc = "idle"
  /\ szResponse = Null
  /\ szFaithful = FALSE
  /\ szReturn = Null

\* getDirectorySizes up to the await of the shell command (lines 16-24).
SizesCall ==
  /\ szPc = "idle"
  /\ IF Len(dirPaths) = 0
     THEN /\ szPc' = "done"
          /\ szReturn' = [raised |-> FALSE, results |-> EmptyMap]
     ELSE /\ szPc' = "awaiting"
          /\ UNCHANGED szReturn
  /\ UNCHANGED << dirPaths, disk, szResponse, szFaithful >>

\* The command ends as xargs and du do: one line per measurable path, and a
\* non-zero exit status, which makes the shell call throw, when some du
\* failed.
CommandFaithful ==
  /\ szPc = "awaiting"
  /\ \E perm \in Orderings(DOMAIN dirPaths) :
       szResponse' =
         [threw |-> \E i \in DOMAIN dirPaths : disk[dirPaths[i]] = Unmeasurable,
          output |-> FaithfulOutput(dirPaths, perm)]
  /\ szFaithful' = TRUE
  /\ szReturn' = AfterCommand(dirPaths, szResponse')
  /\ szPc' = "done"
  /\ UNCHANGED << dirPaths, disk >>

\* The command ends in any other way: any output, any exit status.
CommandArbitrary ==
  /\ szPc = "awaiting"
  /\ \E lines \in SeqsUpTo(CandidateLines, MaxLines), threw \in BOOLEAN :
       szResponse' = [threw |-> threw, output |-> JoinLines(lines)]
  /\ szFaithful' = FALSE
  /\ szReturn' = AfterCommand(dirPaths, szResponse')
  /\ szPc' = "done"
  /\ UNCHANGED << dirPaths, disk >>

SizesNext ==
  \/ SizesCall /\ UNCHANGED notSizes
  \/ CommandFaithful /\ UNCHANGED notSizes
  \/ CommandArbitrary /\ UNCHANGED notSizes

SizesSpec == SizesInit /\ [][SizesNext]_vars

\* The paths for which an output line was parsed: the text after the first
\* tab of a line of the output that has one, when the command did not throw.
ParsedPaths ==
  IF szResponse.threw THEN {}
  ELSE LET lines == Split(Trim(szResponse.output), NL)
       IN { Slice(lines[i], IndexOf(lines[i], TAB) + 1, Len(lines[i])) :
              i \in {i \in DOMAIN lines : IndexOf(lines[i], TAB) # -1} }

SizesDone == szPc = "done" /\ Len(dirPaths) > 0

\* C11: whatever the command printed and however it ended, the returned map
\* has an entry for every input path, and an input path for which no line
\* was parsed maps to null, not to 0.
C11_EveryPathMapped ==
  SizesDone =>
    \A i \in DOMAIN dirPaths :
      /\ dirPaths[i] \in DOMAIN szReturn.results
      /\ dirPaths[i] \notin ParsedPaths =>
           /\ szReturn.results[dirPaths[i]] = Null
           /\ szReturn.results[dirPaths[i]] # << 0 >>

C11_Witness ==
  /\ SizesDone
  /\ ~ szResponse.threw
  /\ \E i, j \in DOMAIN dirPaths :
       /\ dirPaths[i] \notin ParsedPaths
       /\ dirPaths[j] \in ParsedPaths
       /\ szReturn.results[dirPaths[j]] = << 1024 >>

C13_TotalFailureAllUnknown ==
  (szPc = "done" /\ szResponse # Null /\ szResponse.threw) =>
    /\ ~ szReturn.raised
    /\ DOMAIN szReturn.results = {dirPaths[i] : i \in DOMAIN dirPaths}
    /\ \A path \in DOMAIN szReturn.results : szReturn.results[path] = Null

C13_Witness ==
  /\ szPc = "done"
  /\ szResponse # Null /\ szResponse.threw
  /\ Cardinality(DOMAIN szReturn.results) = 2

\* ======================================================================
\* The result pipeline: sortByAge (src/scanner.ts:123-128), sortBySize and
\* filterByAge (src/cli.ts).  A call is modelled by what it leaves in the
\* array it was given (arg) and the array it returns (ret).
\* ======================================================================

MaxRecords == 3
MaxDays == 1
MaxCalls == 2

\* 24 * 60 * 60 * 1000
DayMs == 86400000

\* A reading of Date.now(), in milliseconds.
Now == 3 * DayMs

Clock == {Now, Now + 1}

ModifiedTimes == {Now - DayMs - 1, Now - DayMs, Now - DayMs + 1}

KnownSizes == {<< 1024 >>, << 2048 >>}

\* The path of the i-th record of an input array.
RecordPath(i) == << "/", "d", Digits[i + 1], "/", TARGET >>

\* Arrays of at most n records with pairwise distinct paths.
RecordArrays(n) ==
  UNION { [1..len -> ModifiedTimes \X ({Null} \cup KnownSizes)] : len \in 0..n }

MakeRecords(f) ==
  [i \in DOMAIN f |-> [path |-> RecordPath(i), size |-> f[i][2],
                       modifiedAt |-> f[i][1]]]

\* a.size ?? 0
OrZero(size) == IF size = Null THEN << 0 >> ELSE size

\* The comparators handed to Array.prototype.sort; NaN stands for a result
\* that is NaN, which sort treats as 0.
CompareAge(a, b, descending) ==
  LET diff == a.modifiedAt - b.modifiedAt
  IN IF descending THEN 0 - diff ELSE diff

CompareSize(a, b) ==
  IF OrZero(a.size) = NaN \/ OrZero(b.size) = NaN
  THEN 0
  ELSE OrZero(b.size)[1] - OrZero(a.size)[1]

Compare(cmp, a, b) ==
  IF cmp.by = "age" THEN CompareAge(a, b, cmp.descending) ELSE CompareSize(a, b)

RECURSIVE InsertSorted(_, _, _), ArraySort(_, _)

\* x put into the sorted array before the first element it is less than.
InsertSorted(x, sorted, cmp) ==
  IF sorted = << >> THEN << x >>
  ELSE IF Compare(cmp, x, Head(sorted)) < 0 THEN << x >> \o sorted
  ELSE << Head(sorted) >> \o InsertSorted(x, Tail(sorted), cmp)

\* Array.prototype.sort(compareFn): a stable sort.
ArraySort(array, cmp) ==
  IF array = << >> THEN << >>
  ELSE InsertSorted(array[Len(array)],
                    ArraySort(SubSeq(array, 1, Len(array) - 1), cmp), cmp)

\* sortByAge ignoring its descending argument.
sortByAgeAscending(records, descending) ==
  [arg |-> records,
   ret |-> ArraySort(records, [by |-> "age", descending |-> FALSE])]

\* sortByAge sorting the array it was given instead of a copy.
sortByAgeInPlace(records, descending) ==
  LET sorted == ArraySort(records, [by |-> "age", descending |-> descending])
  IN [arg |-> sorted, ret |-> sorted]

\* [...results].sort(...): the copy is sorted, the argument is left alone.
sortByAge(records, descending) ==
  [arg |-> records,
   ret |-> ArraySort(records, [by |-> "age", descending |-> descending])]

\* sortBySize comparing a.size with b.size: smallest first.
sortBySizeAscending(records) ==
  LET sorted == ArraySort(records, [by |-> "size", descending |-> TRUE])
  IN [arg |-> records,
      ret |-> [i \in DOMAIN sorted |-> sorted[Len(sorted) + 1 - i]]]

sortBySize(records) ==
  [arg |-> records,
   ret |-> ArraySort(records, [by |-> "size", descending |-> TRUE])]

\* filterByAge with <= in place of <.
filterByAgeInclusive(records, olderThanDays, now) ==
  [arg |-> records,
   ret |-> IF olderThanDays = NaN THEN << >>
           ELSE SelectSeq(records,
                  LAMBDA r : r.modifiedAt <= now - olderThanDays[1] * DayMs)]

\* filterByAge: now is the one reading of Date.now(); a NaN cutoff compares
\* false with every date.
filterByAge(records, olderThanDays, now) ==
  [arg |-> records,
   ret |-> IF olderThanDays = NaN THEN << >>
           ELSE SelectSeq(records,
                  LAMBDA r : r.modifiedAt < now - olderThanDays[1] * DayMs)]

PipeInit ==
  /\ ScanIdle
  /\ SizesIdle
  /\ MainIdle
  /\ src \in {MakeRecords(f) : f \in RecordArrays(MaxRecords)}
  /\ arg = src
  /\ ret = << >>
  /\ lastCall = Null
  /\ calls = 0

Returned(call, outcome) ==
  /\ arg' = outcome.arg
  /\ ret' = outcome.ret
  /\ lastCall' = call
  /\ calls' = calls + 1
  /\ UNCHANGED src

CallSortByAge ==
  /\ calls < MaxCalls
  /\ \E descending \in BOOLEAN :
       Returned([fn |-> "sortByAge", descending |-> descending, days |-> 0,
                 now |-> 0],
                sortByAge(arg, descending))

CallSortBySize ==
  /\ calls < MaxCalls
  /\ Returned([fn |-> "sortBySize", descending |-> TRUE, days |-> 0, now |-> 0],
              sortBySize(arg))

CallFilterByAge ==
  /\ calls < MaxCalls
  /\ \E days \in 0..MaxDays, now \in Clock :
       Returned([fn |-> "filterByAge", descending |-> FALSE, days |-> days,
                 now |-> now],
                filterByAge(arg, << days >>, now))

PipeNext ==
  \/ CallSortByAge /\ UNCHANGED notPipe
  \/ CallSortBySize /\ UNCHANGED notPipe
  \/ CallFilterByAge /\ UNCHANGED notPipe

PipeSpec == PipeInit /\ [][PipeNext]_vars

\* Position of the record with the given path in an array of distinct paths.
IndexIn(array, path) == CHOOSE i \in DOMAIN array : array[i].path = path

\* b holds the records of a, each once.
IsPermutation(a, b) ==
  /\ Len(a) = Len(b)
  /\ \A i \in DOMAIN a : \E j \in DOMAIN b : b[j] = a[i]

Just(fn) == lastCall # Null /\ lastCall.fn = fn

\* C14: sortByAge returns a permutation of its input, newest first when the
\* flag is true and oldest first when it is false, records of equal
\* modifiedAt keeping their input order.
C14_SortByAgeStable ==
  Just("sortByAge") =>
    /\ IsPermutation(src, ret)
    /\ \A i, j \in DOMAIN ret :
         i < j =>
           /\ lastCall.descending => ret[i].modifiedAt >= ret[j].modifiedAt
           /\ ~ lastCall.descending => ret[i].modifiedAt <= ret[j].modifiedAt
           /\ ret[i].modifiedAt = ret[j].modifiedAt =>
                IndexIn(src, ret[i].path) < IndexIn(src, ret[j].path)

C14_Witness ==
  /\ Just("sortByAge")
  /\ lastCall.descending
  /\ Len(ret) = 3
  /\ ret # src
  /\ ret[1].modifiedAt > ret[2].modifiedAt
  /\ ret[2].modifiedAt = ret[3].modifiedAt

\* C15: filterByAge returns exactly the records modified strictly before
\* now minus the threshold in days, in their input order; a record modified
\* exactly at that instant is left out.
C15_FilterStrictlyOlder ==
  Just("filterByAge") =>
    LET cutoff == lastCall.now - lastCall.days * DayMs
    IN /\ \A i \in DOMAIN src :
            (src[i].modifiedAt < cutoff) <=> (\E j \in DOMAIN ret : ret[j] = src[i])
       /\ \A j \in DOMAIN ret : \E i \in DOMAIN src : src[i] = ret[j]
       /\ \A i, j \in DOMAIN ret :
            i < j => IndexIn(src, ret[i].path) < IndexIn(src, ret[j].path)
       /\ \A j \in DOMAIN ret : ret[j].modifiedAt # cutoff

C15_Witness ==
  /\ Just("filterByAge")
  /\ lastCall.days = 1 /\ lastCall.now = Now
  /\ Len(ret) = 1 /\ Len(src) = 3
  /\ \E i \in DOMAIN src : src[i].modifiedAt = Now - DayMs

\* C16: whatever calls were made, the array handed to sortByAge, sortBySize
\* and filterByAge still has its original elements in their original order.
C16_InputUntouched == arg = src

C16_Witness ==
  /\ calls = 2
  /\ ret # src
  /\ IsPermutation(src, ret)
  /\ Len(src) = 3

\* C17: sortBySize returns a permutation of its input in non-increasing
\* size, a null size counting as 0, so after every positive size.
C17_SortBySizeDescending ==
  Just("sortBySize") =>
    /\ IsPermutation(src, ret)
    /\ \A i, j \in DOMAIN ret :
         i < j =>
           /\ OrZero(ret[i].size)[1] >= OrZero(ret[j].size)[1]
           /\ ret[i].size = Null => ret[j].size \notin KnownSizes

C17_Witness ==
  /\ Just("sortBySize")
  /\ Len(ret) = 3
  /\ src[1].size = Null
  /\ ret[1].size = << 2048 >> /\ ret[2].size = << 1024 >> /\ ret[3].size = Null

\* ======================================================================
\* main() of the command line tool (src/cli.ts): parseArgs, the scan, the
\* sizing, sort, filter, print, confirmation and deletion.  One step is what
\* main runs between two awaits.
\* ======================================================================

MaxArgs == 4
MaxFound == 2

OptClean == { <<"-", "c">>, <<"-", "-", "c", "l", "e", "a", "n">> }
OptYes == { <<"-", "y">>, <<"-", "-", "y", "e", "s">> }
OptHelp == { <<"-", "h">>, <<"-", "-", "h", "e", "l", "p">> }
OptSize == { <<"-", "s">>, <<"-", "-", "s", "i", "z", "e">> }
OptOlder == { <<"-", "o">>, <<"-", "-", "o", "l", "d", "e", "r">> }

\* process.cwd()
Cwd == << "/", "w" >>

\* The command line words of the model.
ArgTokens ==
  { <<"-", "c">>, <<"-", "y">>, <<"-", "h">>, <<"-", "s">>, <<"-", "o">>,
    <<"1">> }

\* Command lines of at most MaxArgs words, no word twice.
CommandLines ==
  { line \in SeqsUpTo(ArgTokens, MaxArgs) :
      \A i, j \in DOMAIN line : line[i] = line[j] => i = j }

\* arg.startsWith("-")
StartsWithDash(str) == str # << >> /\ Head(str) = "-"

\* path.resolve(arg) of an absolute, normalised path; any other is taken
\* relative to the working directory.
Resolve(str) ==
  IF str # << >> /\ Head(str) = "/" THEN str ELSE Cwd \o << "/" >> \o str

RECURSIVE parseArgsFrom(_, _, _)
\* The for loop of parseArgs from index i (1-based) on.
parseArgsFrom(argv, i, acc) ==
  IF i > Len(argv) THEN acc
  ELSE LET word == argv[i]
       IN IF word \in OptClean
          THEN parseArgsFrom(argv, i + 1, [acc EXCEPT !.clean = TRUE])
          ELSE IF word \in OptYes
          THEN parseArgsFrom(argv, i + 1, [acc EXCEPT !.yes = TRUE])
          ELSE IF word \in OptHelp
          THEN parseArgsFrom(argv, i + 1, [acc EXCEPT !.help = TRUE])
          ELSE IF word \in OptSize
          THEN parseArgsFrom(argv, i + 1, [acc EXCEPT !.sortBySize = TRUE])
          ELSE IF word \in OptOlder
          THEN parseArgsFrom(argv, i + 2,
                 IF i + 1 <= Len(argv) /\ argv[i + 1] # << >>
                 THEN [acc EXCEPT !.olderThan = ParseInt(argv[i + 1])]
                 ELSE acc)
          ELSE IF ~ StartsWithDash(word)
          THEN parseArgsFrom(argv, i + 1, [acc EXCEPT !.path = Resolve(word)])
          ELSE parseArgsFrom(argv, i + 1, acc)

parseArgs(argv) ==
  parseArgsFrom(argv, 1,
    [path |-> Cwd, clean |-> FALSE, yes |-> FALSE, help |-> FALSE,
     olderThan |-> Null, sortBySize |-> FALSE])

\* populateSizes: result.size = sizes.get(result.path) ?? null
populateSizes(records, sizes) ==
  [i \in DOMAIN records |->
     [records[i] EXCEPT !.size = IF records[i].path \in DOMAIN sizes
                                 THEN sizes[records[i].path]
                                 ELSE Null]]

\* sum + (r.size ?? 0)
AddSize(sum, size) ==
  IF sum = NaN \/ OrZero(size) = NaN THEN NaN
  ELSE << sum[1] + OrZero(size)[1] >>

RECURSIVE TotalSize(_)
\* results.reduce((sum, r) => sum + (r.size ?? 0), 0)
TotalSize(records) ==
  IF records = << >> THEN << 0 >>
  ELSE AddSize(TotalSize(SubSeq(records, 1, Len(records) - 1)),
               records[Len(records)].size)

PathList(records) == [i \in DOMAIN records |-> records[i].path]

\* String.prototype.toLowerCase over the letters of the model
LowerChar(c) ==
  CASE c = "Y" -> "y" [] c = "E" -> "e" [] c = "S" -> "s" [] c = "N" -> "n"
    [] OTHER -> c

ToLowerCase(str) == [i \in DOMAIN str |-> LowerChar(str[i])]

\* Lines the user may type.
AnswerLines ==
  { <<"y">>, <<"Y", "E", "S">>, <<" ", "y", "e", "s", " ">>, <<"n">>, << >>,
    <<"y", "e">> }

\* confirmClean accepting everything but a refusal.
confirmCleanUnlessNo(read) ==
  IF read.kind = "line"
  THEN ToLowerCase(Trim(read.text)) \notin { <<"n">>, <<"n", "o">> }
  ELSE TRUE

\* confirmClean: the first line read decides; end of input means no.
confirmClean(read) ==
  IF read.kind = "line"
  THEN ToLowerCase(Trim(read.text)) \in { <<"y">>, <<"y", "e", "s">> }
  ELSE FALSE

\* Lines 164-176 of main: sort, filter, print.
sortFilterPrint(o, sized, now) ==
  LET sorted == IF o.sortBySize THEN sortBySize(sized).ret
                ELSE sortByAge(sized, TRUE).ret
      filtered == IF o.olderThan # Null
                  THEN filterByAge(sorted, o.olderThan, now).ret
                  ELSE sorted
  IN [sorted |-> sorted, filtered |-> filtered, printed |-> PathList(filtered)]

\* Lines 185-189 of main: cleanDirectories(filtered) starts its shell command,
\* or "Aborted." is printed and main returns.
startClean(locals, shouldClean) ==
  IF shouldClean
  THEN [pc |-> "cleaning", handed |-> PathList(locals.filtered), exitCode |-> Null]
  ELSE [pc |-> "exited", handed |-> << >>, exitCode |-> 0]

RECURSIVE XargsItem(_, _, _)
\* How xargs -I {} reads one input line: quotes and backslashes are taken
\* off, and a quote left open at the end of the line is an error.  A path
\* of the model ends in /node_modules, so no line ends in a backslash.
XargsItem(line, state, item) ==
  IF line = << >>
  THEN [ok |-> state \notin {"single", "double"}, item |-> item]
  ELSE LET c == Head(line)
       IN IF state = "backslash"
          THEN XargsItem(Tail(line), "norm", Append(item, c))
          ELSE IF state = "single"
          THEN IF c = "'" THEN XargsItem(Tail(line), "norm", item)
               ELSE XargsItem(Tail(line), state, Append(item, c))
          ELSE IF state = "double"
          THEN IF c = "\"" THEN XargsItem(Tail(line), "norm", item)
               ELSE XargsItem(Tail(line), state, Append(item, c))
          ELSE IF c = "\\" THEN XargsItem(Tail(line), "backslash", item)
          ELSE IF c = "'" THEN XargsItem(Tail(line), "single", item)
          ELSE IF c = "\"" THEN XargsItem(Tail(line), "double", item)
          ELSE XargsItem(Tail(line), state, Append(item, c))

RECURSIVE Xargs(_)
\* echo ${input} | xargs -P n -I {} cmd {}: the items cmd is run on, line
\* by line, until a line cannot be read; then xargs stops with an error.
Xargs(lines) ==
  IF lines = << >> THEN [items |-> << >>, aborted |-> FALSE]
  ELSE LET first == XargsItem(Head(lines), "norm", << >>)
           rest == Xargs(Tail(lines))
       IN IF first.ok
          THEN [items |-> << first.item >> \o rest.items,
                aborted |-> rest.aborted]
          ELSE [items |-> << >>, aborted |-> TRUE]

\* The exit status of xargs is not zero.
CommandFailed(run) ==
  run.aborted \/ \E item \in DOMAIN run.outcome : run.outcome[item] = "failed"

\* cleanDirectories from the end of the shell command on (lines 129-140):
\* Bun's $ throws on a non-zero exit status, the catch swallows it, and the
\* summary is printed.  .quiet() keeps the output of rm and xargs from the
\* user, so no path is reported on its own; the summary counts and sums
\* every record of the batch.
cleanDirectories(records, run) ==
  [raised |-> FALSE,
   failed |-> CommandFailed(run),
   reported |-> {},
   attempted |-> DOMAIN run.outcome,
   count |-> Len(records),
   freed |-> TotalSize(records)]

\* Names of the directories that hold a node_modules.
DirNames == { <<"a", "b">>, <<"a", "\\", "b">>, <<"i", "t", "'", "s">> }

MainPath(name) == << "/" >> \o name \o << "/", TARGET >>

MainTimes == {Now - DayMs - 1, Now - DayMs}

\* What findNodeModules may return: records with distinct paths, no size.
FoundArrays ==
  { [i \in DOMAIN f |-> [path |-> MainPath(f[i][1]), size |-> Null,
                         modifiedAt |-> f[i][2]]] :
      f \in { g \in UNION { [1..len -> DirNames \X MainTimes] :
                             len \in 0..MaxFound } :
                \A i, j \in DOMAIN g : g[i][1] = g[j][1] => i = j } }

Locals == [opts |-> opts, results |-> mResults, sorted |-> mSorted,
           filtered |-> mFiltered]

MainInit ==
  /\ ScanIdle
  /\ SizesIdle
  /\ PipeIdle
  /\ args \in CommandLines
  /\ opts = Null
  /\ mPc = "start"
  /\ mResults = << >>
  /\ mSorted = << >>
  /\ mFiltered = << >>
  /\ mNow = Null
  /\ printed = << >>
  /\ answer = Null
  /\ handed = << >>
  /\ rmOutcome = Null
  /\ cleaned = Null
  /\ exitCode = Null

\* main up to the await of findNodeModules (lines 152-161).
MainStart ==
  /\ mPc = "start"
  /\ opts' = parseArgs(args)
  /\ IF opts'.help
     THEN mPc' = "exited" /\ exitCode' = 0
     ELSE mPc' = "scanning" /\ UNCHANGED exitCode
  /\ UNCHANGED << args, mResults, mSorted, mFiltered, mNow, printed, answer,
                  handed, rmOutcome, cleaned >>

\* Lines 164-190 for the sized records: up to process.exit, the prompt, the
\* start of the deletion, or the return of main.
Proceed(sized, now) ==
  LET out == sortFilterPrint(opts, sized, now)
      go == startClean([Locals EXCEPT !.results = sized,
                                      !.sorted = out.sorted,
                                      !.filtered = out.filtered], TRUE)
  IN /\ mResults' = sized
     /\ mSorted' = out.sorted
     /\ mFiltered' = out.filtered
     /\ printed' = out.printed
     /\ mNow' = now
     /\ IF out.filtered = << >>
        THEN mPc' = "exited" /\ exitCode' = 0 /\ UNCHANGED handed
        ELSE IF opts.clean
        THEN IF opts.yes
             THEN mPc' = go.pc /\ handed' = go.handed /\ exitCode' = go.exitCode
             ELSE mPc' = "confirm" /\ UNCHANGED << handed, exitCode >>
        ELSE mPc' = "exited" /\ exitCode' = 0 /\ UNCHANGED handed
     /\ UNCHANGED << args, opts, answer, rmOutcome, cleaned >>

ReadClock == IF opts.olderThan # Null THEN Clock ELSE {Null}

\* findNodeModules returns; populateSizes calls getDirectorySizes, which
\* returns at once for no paths and otherwise awaits its shell command.
ScanReturns ==
  /\ mPc = "scanning"
  /\ \E records \in FoundArrays :
       IF records = << >>
       THEN \E now \in ReadClock : Proceed(records, now)
       ELSE /\ mResults' = records
            /\ mPc' = "sizing"
            /\ UNCHANGED << args, opts, mSorted, mFiltered, mNow, printed,
                            answer, handed, rmOutcome, cleaned, exitCode >>

\* The du command of getDirectorySizes ends (as xargs and du do); main goes
\* on to the end of its synchronous part.
SizesReturn ==
  /\ mPc = "sizing"
  /\ LET paths == PathList(mResults)
         run == Xargs(paths)
         items == {run.items[i] : i \in DOMAIN run.items}
     IN \E d \in [items -> {Unmeasurable, << 1 >>}],
           perm \in Orderings(DOMAIN run.items),
           now \in ReadClock :
          LET response ==
                [threw |-> \/ run.aborted
                           \/ \E item \in items : d[item] = Unmeasurable,
                 output |-> FaithfulOutputOn(d, run.items, perm)]
          IN Proceed(populateSizes(mResults,
                                   AfterCommand(paths, response).results),
                     now)

\* confirmClean reads a line, or the end of standard input.
Answered(read) ==
  LET go == startClean(Locals, confirmClean(read))
  IN /\ mPc = "confirm"
     /\ answer' = read
     /\ mPc' = go.pc
     /\ handed' = go.handed
     /\ exitCode' = go.exitCode
     /\ UNCHANGED << args, opts, mResults, mSorted, mFiltered, mNow, printed,
                     rmOutcome, cleaned >>

AnswerLine == \E line \in AnswerLines : Answered([kind |-> "line", text |-> line])

AnswerEnd == Answered([kind |-> "eof", text |-> << >>])

\* The rm command of cleanDirectories ends: each path was removed, was gone
\* already, or could not be removed; main returns or rejects.
RmCompletes ==
  /\ mPc = "cleaning"
  /\ LET items == Xargs(handed).items
     IN \E outcome \in [{items[i] : i \in DOMAIN items} ->
                          {"removed", "gone", "failed"}] :
          LET run == [outcome |-> outcome, aborted |-> Xargs(handed).aborted]
          IN /\ rmOutcome' = outcome
             /\ cleaned' = cleanDirectories(mFiltered, run)
  /\ mPc' = "exited"
  /\ exitCode' = IF cleaned'.raised THEN 1 ELSE 0
  /\ UNCHANGED << args, opts, mResults, mSorted, mFiltered, mNow, printed,
                  answer, handed >>

MainNext ==
  \/ MainStart /\ UNCHANGED notMain
  \/ ScanReturns /\ UNCHANGED notMain
  \/ SizesReturn /\ UNCHANGED notMain
  \/ AnswerLine /\ UNCHANGED notMain
  \/ AnswerEnd /\ UNCHANGED notMain
  \/ RmCompletes /\ UNCHANGED notMain

MainSpec == MainInit /\ [][MainNext]_vars

Occurs(words) == \E i \in DOMAIN args : args[i] \in words

\* rm -rf was run on some directory.
Deleting == handed # << >>

\* C18: directories are handed to rm only when -c or --clean was given and
\* either -y or --yes was given or the first input line, trimmed and in
\* lower case, is y or yes; never after -h, after end of input, or with
\* nothing to list.
C18_DeleteOnlyWhenConfirmed ==
  Deleting =>
    /\ Occurs(OptClean)
    /\ \/ Occurs(OptYes)
       \/ /\ answer # Null
          /\ answer.kind = "line"
          /\ ToLowerCase(Trim(answer.text)) \in { <<"y">>, <<"y", "e", "s">> }
    /\ ~ opts.help
    /\ printed # << >>

C18_Witness ==
  /\ mPc = "exited"
  /\ Deleting
  /\ ~ Occurs(OptYes)
  /\ answer # Null /\ answer.text = <<" ", "y", "e", "s", " ">>
  /\ \E path \in DOMAIN rmOutcome : rmOutcome[path] = "removed"

\* An input line that xargs hands on as it is.
Plain(line) == XargsItem(line, "norm", << >>) = [ok |-> TRUE, item |-> line]

\* C19: with --older N and --clean, the paths given to cleanDirectories are
\* exactly those that passed the age filter and were printed, and no scanned
\* directory is removed unless it was modified strictly more than N days
\* before the clock reading, whatever the sort order.
C19_DeleteExactlyFiltered ==
  (cleaned # Null /\ opts.olderThan # Null) =>
    /\ handed = printed
    /\ handed = PathList(mFiltered)
    /\ \A i \in DOMAIN mResults :
         ( /\ mResults[i].path \in DOMAIN rmOutcome
           /\ rmOutcome[mResults[i].path] = "removed" )
         => mResults[i].modifiedAt < mNow - opts.olderThan[1] * DayMs

\* C20: when the rm command has ended, nothing was raised by
\* cleanDirectories, main ends with status 0, and rm was run on every path
\* of the batch that is an input line of its own right, whatever happened
\* to the other paths.
C20_DeleteFailureIsolated ==
  cleaned # Null =>
    /\ ~ cleaned.raised
    /\ exitCode = 0
    /\ \A i \in DOMAIN handed :
         Plain(handed[i]) => handed[i] \in cleaned.attempted

\* The records of the batch that rm was run on without failure.
DeletedRecords ==
  SelectSeq(mFiltered,
            LAMBDA r : r.path \in DOMAIN rmOutcome /\ rmOutcome[r.path] # "failed")

\* The paths of the batch that were not deleted.
FailedPaths ==
  { r.path : r \in { mFiltered[i] : i \in DOMAIN mFiltered } } \
    PathsOf(DeletedRecords)

AllPlain == \A i \in DOMAIN handed : Plain(handed[i])

\* C21: the freed space in the summary is the sum of the sizes, unknown
\* taken as zero, of the records that were deleted; a record whose deletion
\* failed adds nothing.
C21_FreedSumsDeleted ==
  (cleaned # Null /\ AllPlain) => cleaned.freed = TotalSize(DeletedRecords)

\* C22: parseArgs sets clean exactly when -c or --clean is among the
\* arguments, yes exactly when -y or --yes is, and help exactly when -h or
\* --help is, wherever the word stands and whatever the other words are.
C22_FlagsWhereverTheyStand ==
  opts # Null =>
    /\ opts.clean = Occurs(OptClean)
    /\ opts.yes = Occurs(OptYes)
    /\ opts.help = Occurs(OptHelp)

\* C27: when some path of the batch could not be deleted, that path is
\* reported to the user on its own, and the summary does not count it as
\* cleaned.
C27_FailureReportedPerPath ==
  (cleaned # Null /\ AllPlain) =>
    /\ FailedPaths \subseteq cleaned.reported
    /\ cleaned.count = Len(DeletedRecords)

\* C26: every size in the mapping getDirectorySizes returns is unknown or a
\* non-negative whole multiple of 1024; a line whose count is not a decimal
\* number leaves no entry of its own.
C26_SizesAreMultiples ==
  SizesDone =>
    \A path \in DOMAIN szReturn.results :
      LET size == szReturn.results[path]
      IN \/ size = Null
         \/ /\ size # NaN
            /\ size[1] >= 0
            /\ size[1] % 1024 = 0

\* The worker() invocations that are inside their loop.
Running == {w \in DOMAIN workers : workers[w].pc \in {"readdir", "stat"}}

\* The worker() invocations waiting for a directory listing.
Listing == {w \in DOMAIN workers : workers[w].pc = "readdir"}

\* C23: activeWorkers is the number of worker loops started and not yet
\* left, it lies between 0 and concurrency, and no more than concurrency
\* listings are in flight.
C23_ActiveWorkersCounts ==
  /\ activeWorkers = Cardinality(Running)
  /\ 0 <= activeWorkers
  /\ activeWorkers <= concurrency
  /\ Cardinality(Listing) <= concurrency

\* C24: completion is signalled only with the queue empty and no worker
\* holding a path, and once a worker has left its loop no path stays queued
\* with no worker running to take it.
C24_CompletionOnlyWhenQuiescent ==
  /\ allDone => (queue = << >> /\ NoIOPending)
  /\ (\E w \in DOMAIN workers : workers[w].pc = "exited")
       => (queue = << >> \/ Running # {})

C24_Witness ==
  /\ allDone
  /\ Len(listed) >= 3
  /\ results # << >>

NoDuplicates(seq) == \A i, j \in DOMAIN seq : seq[i] = seq[j] => i = j

\* C25: no path is put in the queue twice or taken from it twice, no two
\* workers hold the same path, and no two records have the same path.
C25_EachPathOnce ==
  /\ NoDuplicates(listed \o queue)
  /\ \A v, w \in Running :
       workers[v].currentPath = workers[w].currentPath => v = w
  /\ NoDuplicates(PathList(results))

C25_Witness ==
  /\ allDone
  /\ Len(listed) >= 3
  /\ Len(results) >= 2

====
